---- MODULE Spec2Model ----
(***************************************************************************)
(* OptionsDatabase of manix (src/options_docsource.rs): a HashMap from     *)
(* option name to OptionDocumentation, refreshed by update() from a JSON   *)
(* file whose path an external nix-build invocation prints, and queried by *)
(* all_keys(), search() and search_liberal().                              *)
(*                                                                         *)
(* Strings are sequences of one-character strings.  A HashMap is the       *)
(* sequence of its entries in the iteration order of its table, which the  *)
(* per-map random hasher decides: two maps with the same keys may iterate  *)
(* in different orders.                                                    *)
(***************************************************************************)
EXTENDS Integers, Sequences, FiniteSets

VARIABLES typ, options, call, ret, succeeded

vars == <<typ, options, call, ret, succeeded>>

---------------------------------------------------------------------------
(* Bounds and input universes *)

\* the largest number of members of a fetched JSON document
MaxKeys == 2

\* the path segments the "loc" arrays of the documents are built from
SegA == <<"a">>
SegB == <<"B">>

\* the "loc" arrays that occur in the documents
Locations == { <<SegA>>, <<SegA, SegB>> }

\* the outputs a nix-build invocation may leave on stdout: bytes that are
\* not UTF-8, nothing, and a store path followed by a newline
Stdouts == { <<"\\xff">>, <<>>, <<"/nix/store/out", "\n">> }

\* the captured stderr of an invocation
Stderrs == { <<"error: build failed", "\n">> }

---------------------------------------------------------------------------
(* Sequences *)

Range(s) == { s[i] : i \in 1..Len(s) }

\* the orders in which the elements of the set S can be listed
Orders(S) ==
  { s \in [1..Cardinality(S) -> S] : \A i, j \in 1..Cardinality(S) : s[i] = s[j] => i = j }

---------------------------------------------------------------------------
(* OptionDocumentation *)

\* Vec<String>::join(".")
RECURSIVE join(_, _)
join(segs, sep) ==
  IF segs = <<>> THEN <<>>
  ELSE IF Len(segs) = 1 THEN segs[1]
       ELSE segs[1] \o sep \o join(Tail(segs), sep)

OptionDocumentation(loc) ==
  [description |-> <<>>, read_only |-> FALSE, location |-> loc, option_type |-> <<"t">>]

\* name() joining the segments without the separator
name_unseparated(self) == join(self.location, <<>>)

name(self) == join(self.location, <<".">>)

Records == { OptionDocumentation(l) : l \in Locations }

\* the member names of the documents: the dotted names of the locations,
\* and one name that is the dotted name of no location
Keys == { join(l, <<".">>) : l \in Locations } \cup { SegB }

OptionsDatabaseType == { "NixOS", "NixDarwin", "HomeManager" }

\* a constructor that starts from a built-in entry instead of an empty map
new_prefilled(t) ==
  [typ |-> t,
   options |-> <<[key |-> SegA, value |-> OptionDocumentation(<<SegA>>)]>>]

\* OptionsDatabase::new: the given variant and an empty HashMap
new(t) == [typ |-> t, options |-> <<>>]

\* HashMap::keys(): the keys in the iteration order of the table
keys(map) == [i \in 1..Len(map) |-> map[i].key]

---------------------------------------------------------------------------
(* Case-insensitive ASCII matching and DocEntry (crate root) *)

\* u8::to_ascii_lowercase on the letters of the alphabet
to_ascii_lowercase(c) ==
  IF c = "A" THEN "a" ELSE IF c = "B" THEN "b" ELSE c

\* the query type: a string folded to lower case by the caller
Lowercase(s) == [i \in 1..Len(s) |-> to_ascii_lowercase(s[i])]

starts_with_insensitive_ascii(s, prefix) ==
  /\ Len(s) >= Len(prefix)
  /\ \A i \in 1..Len(prefix) :
       to_ascii_lowercase(s[i]) = to_ascii_lowercase(prefix[i])

contains_insensitive_ascii(s, inner) ==
  \E off \in 0..Len(s) :
    /\ off + Len(inner) <= Len(s)
    /\ \A i \in 1..Len(inner) :
         to_ascii_lowercase(s[off + i]) = to_ascii_lowercase(inner[i])

\* DocEntry::OptionDoc(typ, record)
OptionDoc(t, d) == [variant |-> "OptionDoc", typ |-> t, doc |-> d]

---------------------------------------------------------------------------
(* The read-only operations of DocSource *)

all_keys(self) == keys(self.options)

\* search() filtering with the substring test
search_by_substring(self, query) ==
  LET Match(e) == contains_insensitive_ascii(e.key, query)
      hits == SelectSeq(self.options, Match)
  IN  [i \in 1..Len(hits) |-> OptionDoc(self.typ, hits[i].value)]

search(self, query) ==
  LET Match(e) == starts_with_insensitive_ascii(e.key, query)
      hits == SelectSeq(self.options, Match)
  IN  [i \in 1..Len(hits) |-> OptionDoc(self.typ, hits[i].value)]

\* search_liberal() with the arguments of the substring test exchanged
search_liberal_swapped(self, query) ==
  LET Match(e) == contains_insensitive_ascii(query, e.key)
      hits == SelectSeq(self.options, Match)
  IN  [i \in 1..Len(hits) |-> OptionDoc(self.typ, hits[i].value)]

search_liberal(self, query) ==
  LET Match(e) == contains_insensitive_ascii(e.key, query)
      hits == SelectSeq(self.options, Match)
  IN  [i \in 1..Len(hits) |-> OptionDoc(self.typ, hits[i].value)]

---------------------------------------------------------------------------
(* Results, effects and the world update() observes *)

Ok(v)    == [kind |-> "ok", value |-> v]
Err(e)   == [kind |-> "err", value |-> e]
Panic(m) == [kind |-> "panic", value |-> m]

\* std::io::Error
IoError(k, msg) == [error |-> k, msg |-> msg]

\* one interaction of a call with the outside: running nix-build, reading
\* an environment variable, testing a file for existence, reading a file,
\* printing a line
Step(what, arg) == [do |-> what, arg |-> arg]

\* the outcome of a function together with the interactions it performed
Did(steps, result) == [kind |-> result.kind, value |-> result.value, steps |-> steps]

\* what Command::output() yields: the spawn failed, or the process ran and
\* left an exit status, its stdout and its stderr
SpawnFailed == [launched |-> FALSE, success |-> FALSE, stdout |-> <<>>, stderr |-> <<>>]

Outputs ==
  {SpawnFailed} \cup
  [launched : {TRUE}, success : BOOLEAN, stdout : Stdouts, stderr : Stderrs]

\* the environment the HomeManager fallback looks at: HOME, and whether
\* $HOME/.nix-profile/share/doc/home-manager/options.json exists (without
\* HOME there is no such file)
NotConsulted == [home |-> <<"not consulted">>, set |-> FALSE, exists |-> FALSE]

Envs ==
  { [home |-> <<>>, set |-> FALSE, exists |-> FALSE],
    [home |-> <<"/home/u">>, set |-> TRUE, exists |-> FALSE],
    [home |-> <<"/home/u">>, set |-> TRUE, exists |-> TRUE] }

\* the JSON documents serde accepts: at most MaxKeys members, each a record
Docs ==
  UNION { [ks -> Records] : ks \in { S \in SUBSET Keys : Cardinality(S) <= MaxKeys } }

\* what reading and parsing a file yields: an I/O error, bytes that are not
\* a document of the schema, or a document together with the order in which
\* the table of the HashMap built from it iterates
NotRead == [kind |-> "not read", doc |-> <<>>, order |-> <<>>]

Files ==
  { [kind |-> "unreadable", doc |-> <<>>, order |-> <<>>],
    [kind |-> "malformed", doc |-> <<>>, order |-> <<>>] } \cup
  UNION { { [kind |-> "json", doc |-> d, order |-> o] : o \in Orders(DOMAIN d) } : d \in Docs }

\* the empty path names no file
FilesAt(path) ==
  IF path = <<>> THEN { f \in Files : f.kind = "unreadable" } ELSE Files

---------------------------------------------------------------------------
(* Path resolution *)

INVALID == "\\xff"

\* String::from_utf8
from_utf8(bytes) ==
  IF \E i \in 1..Len(bytes) : bytes[i] = INVALID
  THEN Err(<<"FromUtf8Error">>) ELSE Ok(bytes)

\* String::from_utf8_lossy
from_utf8_lossy(bytes) ==
  [i \in 1..Len(bytes) |-> IF bytes[i] = INVALID THEN "U+FFFD" ELSE bytes[i]]

\* str::trim_end_matches('\n')
RECURSIVE trim_end_matches(_)
trim_end_matches(str) ==
  IF str # <<>> /\ str[Len(str)] = "\n"
  THEN trim_end_matches(SubSeq(str, 1, Len(str) - 1))
  ELSE str

\* Path::join of a relative path
path_join(base, rel) ==
  IF base = <<>> THEN rel ELSE base \o <<"/">> \o rel

HM_OPTIONS_JSON == <<"share/doc/home-manager/options.json">>

NixBuild == Step("nix-build", <<>>)
EnvHome  == Step("env", <<"HOME">>)

\* the HomeManager resolution using the profile without testing that the
\* options file exists in it
get_hm_json_doc_path_unchecked(out, env) ==
  IF ~out.launched THEN Did(<<NixBuild>>, Err(IoError("spawn", <<>>)))
  ELSE IF out.success
  THEN Did(<<NixBuild>>,
           Ok(path_join(trim_end_matches(from_utf8_lossy(out.stdout)), HM_OPTIONS_JSON)))
  ELSE IF ~env.set THEN Did(<<NixBuild, EnvHome>>, Panic(<<"HOME must be set">>))
  ELSE Did(<<NixBuild, EnvHome>>,
           Ok(path_join(path_join(env.home, <<".nix-profile">>), HM_OPTIONS_JSON)))

get_hm_json_doc_path(out, env) ==
  IF ~out.launched THEN Did(<<NixBuild>>, Err(IoError("spawn", <<>>)))
  ELSE IF out.success
  THEN Did(<<NixBuild>>,
           Ok(path_join(trim_end_matches(from_utf8_lossy(out.stdout)), HM_OPTIONS_JSON)))
  ELSE IF ~env.set THEN Did(<<NixBuild, EnvHome>>, Panic(<<"HOME must be set">>))
  ELSE
    LET path  == path_join(env.home, <<".nix-profile">>)
        steps == <<NixBuild, EnvHome, Step("exists", path_join(path, HM_OPTIONS_JSON))>>
    IN  IF env.exists
        THEN Did(steps, Ok(path_join(path, HM_OPTIONS_JSON)))
        ELSE Did(steps, Err(IoError("Other", from_utf8_lossy(out.stderr))))

get_nixos_json_doc_path(out) ==
  IF ~out.launched THEN Did(<<NixBuild>>, Err(IoError("spawn", <<>>)))
  ELSE IF from_utf8(out.stdout).kind # "ok" THEN Did(<<NixBuild>>, Panic(<<"unwrap">>))
  ELSE Did(<<NixBuild>>, Ok(trim_end_matches(from_utf8(out.stdout).value)))

get_nd_json_doc_path(out) ==
  IF ~out.launched THEN Did(<<NixBuild>>, Err(IoError("spawn", <<>>)))
  ELSE IF from_utf8(out.stdout).kind # "ok" THEN Did(<<NixBuild>>, Panic(<<"unwrap">>))
  ELSE
    LET path == trim_end_matches(from_utf8(out.stdout).value)
    IN  Did(<<NixBuild, Step("println", path)>>, Ok(path))

\* the match of update() on self.typ
get_json_doc_path(t, out, env) ==
  CASE t = "NixOS"       -> get_nixos_json_doc_path(out)
    [] t = "NixDarwin"   -> get_nd_json_doc_path(out)
    [] t = "HomeManager" -> get_hm_json_doc_path(out, env)

---------------------------------------------------------------------------
(* update() *)

\* std::fs::read and serde_json::from_slice into a HashMap
try_from_file(path, file) ==
  LET steps == <<Step("read", path)>> IN
  IF file.kind = "unreadable" THEN Did(steps, Err(IoError("read", path)))
  ELSE IF file.kind = "malformed" THEN Did(steps, Err(IoError("json", path)))
  ELSE Did(steps, Ok([i \in 1..Len(file.order) |->
                        [key |-> file.order[i], value |-> file.doc[file.order[i]]]]))

\* update() taking the old map out of the database before the new one is
\* fetched and parsed
update_takes_first(self, w) ==
  LET path  == get_json_doc_path(self.typ, w.out, w.env)
      taken == [self EXCEPT !.options = <<>>]
  IN
  IF path.kind # "ok"
  THEN [self |-> taken, ret |-> [kind |-> path.kind, value |-> path.value],
        steps |-> path.steps]
  ELSE
    LET opts == try_from_file(path.value, w.file) IN
    IF opts.kind # "ok"
    THEN [self |-> taken, ret |-> Err(opts.value), steps |-> path.steps \o opts.steps]
    ELSE
      LET old == self.options
          now == [self EXCEPT !.options = opts.value]
      IN  [self |-> now, ret |-> Ok(keys(old) = keys(now.options)),
           steps |-> path.steps \o opts.steps]

\* update() extending the old map by the parsed one instead of replacing it
update_extends(self, w) ==
  LET path == get_json_doc_path(self.typ, w.out, w.env) IN
  IF path.kind # "ok"
  THEN [self |-> self, ret |-> [kind |-> path.kind, value |-> path.value],
        steps |-> path.steps]
  ELSE
    LET opts == try_from_file(path.value, w.file) IN
    IF opts.kind # "ok"
    THEN [self |-> self, ret |-> Err(opts.value), steps |-> path.steps \o opts.steps]
    ELSE
      LET old  == self.options
          Kept(e) == \A i \in 1..Len(opts.value) : opts.value[i].key # e.key
          now  == [self EXCEPT !.options = SelectSeq(old, Kept) \o opts.value]
      IN  [self |-> now, ret |-> Ok(keys(old) = keys(now.options)),
           steps |-> path.steps \o opts.steps]

\* the database after the call, what the call returns and what it did
update(self, w) ==
  LET path == get_json_doc_path(self.typ, w.out, w.env) IN
  IF path.kind # "ok"
  THEN [self |-> self, ret |-> [kind |-> path.kind, value |-> path.value],
        steps |-> path.steps]
  ELSE
    LET opts == try_from_file(path.value, w.file) IN
    IF opts.kind # "ok"
    THEN [self |-> self, ret |-> Err(opts.value), steps |-> path.steps \o opts.steps]
    ELSE
      LET old == self.options
          now == [self EXCEPT !.options = opts.value]
      IN  [self |-> now, ret |-> Ok(keys(old) = keys(now.options)),
           steps |-> path.steps \o opts.steps]

---------------------------------------------------------------------------
(* The state machine *)

NoWorld == [out |-> SpawnFailed, env |-> NotConsulted, file |-> NotRead]

Call(op, q, w, steps) == [op |-> op, query |-> q, world |-> w, steps |-> steps]

\* the queries of the callers, already in lower case
Queries == { Lowercase(k) : k \in Keys } \cup { <<>>, <<".">> }

\* the environment is shown to a call only if the call reads it
reads_env(t, out) ==
  LET steps == get_json_doc_path(t, out, NotConsulted).steps
  IN  \E i \in 1..Len(steps) : steps[i].do = "env"

Init ==
  /\ \E t \in OptionsDatabaseType :
       /\ typ = new(t).typ
       /\ options = new(t).options
  /\ call = Call("new", <<>>, NoWorld, <<>>)
  /\ ret = Ok(<<>>)
  /\ succeeded = FALSE

\* one call of update(): the world shows the call what it looks at
Update ==
  \E out \in Outputs :
  \E env \in (IF reads_env(typ, out) THEN Envs ELSE {NotConsulted}) :
    LET path == get_json_doc_path(typ, out, env) IN
    \E file \in (IF path.kind = "ok" THEN FilesAt(path.value) ELSE {NotRead}) :
      LET w == [out |-> out, env |-> env, file |-> file]
          r == update([typ |-> typ, options |-> options], w)
      IN  /\ typ' = r.self.typ
          /\ options' = r.self.options
          /\ call' = Call("update", <<>>, w, r.steps)
          /\ ret' = r.ret
          /\ succeeded' = (succeeded \/ r.ret.kind = "ok")

AllKeys ==
  /\ call' = Call("all_keys", <<>>, NoWorld, <<>>)
  /\ ret' = Ok(all_keys([typ |-> typ, options |-> options]))
  /\ UNCHANGED <<typ, options, succeeded>>

Search ==
  \E q \in Queries :
    /\ call' = Call("search", q, NoWorld, <<>>)
    /\ ret' = Ok(search([typ |-> typ, options |-> options], q))
    /\ UNCHANGED <<typ, options, succeeded>>

SearchLiberal ==
  \E q \in Queries :
    /\ call' = Call("search_liberal", q, NoWorld, <<>>)
    /\ ret' = Ok(search_liberal([typ |-> typ, options |-> options], q))
    /\ UNCHANGED <<typ, options, succeeded>>

Next == Update \/ AllKeys \/ Search \/ SearchLiberal

Spec == Init /\ [][Next]_vars

---------------------------------------------------------------------------
(* Vocabulary of the properties *)

self == [typ |-> typ, options |-> options]

KeySet(map) == Range(keys(map))

\* the HashMap as a function from key to record
AsMap(map) == [k \in KeySet(map) |-> (CHOOSE e \in Range(map) : e.key = k).value]

UpdateReturned == call.op = "update"
UpdateSucceeded == call.op = "update" /\ ret.kind = "ok"

\* the build invocation of the last call did not come to a successful end
BuildFailed == ~call.world.out.launched \/ ~call.world.out.success
ExitedUnsuccessfully == call.world.out.launched /\ ~call.world.out.success

\* the steps of the last call that look at the fallback location
ConsultedFallback == \E i \in 1..Len(call.steps) : call.steps[i].do \in {"env", "exists"}
FileWasRead == \E i \in 1..Len(call.steps) : call.steps[i].do = "read"

FallbackFile(env) == path_join(path_join(env.home, <<".nix-profile">>), HM_OPTIONS_JSON)

\* every member of the document is named by the dotted loc of its record
WellFormed(doc) == \A k \in DOMAIN doc : k = join(doc[k].location, <<".">>)

---------------------------------------------------------------------------
(* C1: every successful update() returns true exactly when the set of keys
   of the newly parsed mapping equals the set of keys held before the call.
   Fails: the code compares the two key iterations element by element, and
   two maps with the same keys may iterate in different orders. *)
C1_ReturnsKeySetEquality ==
  [][ (call'.op = "update" /\ ret'.kind = "ok")
        => (ret'.value <=> (KeySet(options') = KeySet(options))) ]_vars

(* C2: a failed update() leaves the mapping and the variant as they were
   immediately before the call. *)
C2_FailedUpdateChangesNothing ==
  [][ (call'.op = "update" /\ ret'.kind # "ok")
        => (options' = options /\ typ' = typ) ]_vars

\* an update() has failed on a malformed file while the database held a
\* mapping of two keys, which it still holds
C2_Witness ==
  /\ UpdateReturned /\ ret.kind = "err"
  /\ call.world.file.kind = "malformed"
  /\ Len(options) = 2

(* C3, as stated: after any successful update(), every key of the mapping
   equals the name() of the record stored under it, for every document that
   update() accepts.  Fails: the document's member names are not compared
   with the loc arrays. *)
C3_KeysAreNames ==
  succeeded => \A i \in 1..Len(options) : options[i].key = name(options[i].value)

(* C3, amended: after a successful update() on a document in which every
   member name is the '.'-joined loc of its record, every key of the mapping
   equals the name() of the record stored under it. *)
C3_KeysAreNamesOfWellFormed ==
  (UpdateSucceeded /\ WellFormed(call.world.file.doc))
    => \A i \in 1..Len(options) : options[i].key = name(options[i].value)

C3_Witness ==
  /\ UpdateSucceeded /\ WellFormed(call.world.file.doc)
  /\ Len(options) = 2

(* C4, as stated: after any successful update(), search(k) for a key k of
   the mapping returns exactly one entry, whose name is k.  Fails when
   another key starts with k, and when the loc of k's record does not join
   to k. *)
C4_ExactKeyFindsOne ==
  succeeded =>
    \A i \in 1..Len(options) :
      LET r == search(self, Lowercase(options[i].key))
      IN  Len(r) = 1 /\ name(r[1].doc) = options[i].key

(* C4, amended: after any successful update(), search(k) for a key k of the
   mapping returns one entry for each key that starts with k ignoring ASCII
   case, among them the record stored under k; so it returns exactly one
   entry if and only if no other key starts with k, and that entry is then
   the record stored under k. *)
C4_ExactKeyFindsPrefixed ==
  succeeded =>
    \A i \in 1..Len(options) :
      LET k      == options[i].key
          r      == search(self, Lowercase(k))
          others == { j \in 1..Len(options) :
                        j # i /\ starts_with_insensitive_ascii(options[j].key, Lowercase(k)) }
      IN  /\ OptionDoc(typ, options[i].value) \in Range(r)
          /\ Len(r) = 1 + Cardinality(others)
          /\ (Len(r) = 1 <=> others = {})
          /\ (others = {} => r = <<OptionDoc(typ, options[i].value)>>)

\* search("a.b") has returned the one record of "a.B" though the mapping
\* also holds the key "a"
C4_Witness ==
  /\ succeeded /\ call.op = "search" /\ Len(ret.value) = 1
  /\ \E i, j \in 1..Len(options) :
       /\ i # j
       /\ call.query = Lowercase(options[i].key)
       /\ starts_with_insensitive_ascii(options[i].key, Lowercase(options[j].key))

(* C5: in every state and for every query q, the entries search_liberal(q)
   returns include the entries search(q) returns; every record whose key
   starts with q ignoring case is returned by search_liberal(q). *)
C5_LiberalIncludesSearch ==
  \A q \in Queries :
    /\ Range(search(self, q)) \subseteq Range(search_liberal(self, q))
    /\ Len(search(self, q)) <= Len(search_liberal(self, q))
    /\ \A i \in 1..Len(options) :
         starts_with_insensitive_ascii(options[i].key, q)
           => OptionDoc(typ, options[i].value) \in Range(search_liberal(self, q))

\* search_liberal(q) has returned more than the non-empty search(q)
C5_Witness ==
  /\ call.op = "search_liberal"
  /\ search(self, call.query) # <<>>
  /\ Len(ret.value) > Len(search(self, call.query))
  /\ Range(ret.value) # Range(search(self, call.query))

---------------------------------------------------------------------------
(* The failures of the last update(), as the error kinds name them *)

\* the build invocation failed and no usable fallback existed
FetchError ==
  BuildFailed /\ ~(typ = "HomeManager" /\ call.world.env.exists)

\* the resolved file was unreadable or did not match the schema
ParseError == call.world.file.kind \in {"unreadable", "malformed"}

\* HOME was needed for the fallback and absent
EnvironmentError ==
  /\ \E i \in 1..Len(call.steps) : call.steps[i].do = "env"
  /\ ~call.world.env.set

(* C6: every failure during update() (a failed build invocation, an
   unreadable or malformed file, an absent HOME needed for the fallback) ends
   the call with an error result, never in another way and never with a
   success value.  Fails: a NixOS or NixDarwin build that exits unsuccessfully
   is not noticed, and an absent HOME aborts the call by a panic. *)
C6_EveryFailureIsAnErrorResult ==
  UpdateReturned =>
    ((FetchError \/ ParseError \/ EnvironmentError) => ret.kind = "err")

(* C7: for NixOS and NixDarwin, when the build invocation exits with a
   non-zero status or its stdout is not UTF-8, no path is produced, no file
   is read and update() fails with the mapping unchanged.  Fails: the exit
   status is never looked at, so stdout is taken as the path and read. *)
C7_BadBuildIsAFetchFailure ==
  [][ ( /\ call'.op = "update"
        /\ typ \in {"NixOS", "NixDarwin"}
        /\ call'.world.out.launched
        /\ (~call'.world.out.success \/ from_utf8(call'.world.out.stdout).kind # "ok") )
      => ( /\ ret'.kind = "err"
           /\ get_json_doc_path(typ, call'.world.out, call'.world.env).kind # "ok"
           /\ \A i \in 1..Len(call'.steps) : call'.steps[i].do # "read"
           /\ options' = options ) ]_vars

HMUpdate == typ = "HomeManager" /\ UpdateReturned

\* the files the last call read
ReadPaths == { call.steps[i].arg : i \in { j \in 1..Len(call.steps) : call.steps[j].do = "read" } }

StderrError == Err(IoError("Other", from_utf8_lossy(call.world.out.stderr)))

(* C8, as stated: the HomeManager resolution attempts the build first,
   consults the fallback only after the build failed, uses it only if the
   options file exists there, returns an error carrying the build's stderr
   when the build failed and the file does not exist, and never consults the
   fallback after a successful build.  Fails: with HOME unset no file exists
   at the fallback and the call panics instead of returning that error. *)
C8_FallbackAfterFailedBuild ==
  HMUpdate =>
    /\ Len(call.steps) >= 1 /\ call.steps[1] = NixBuild
    /\ ConsultedFallback => BuildFailed
    /\ FallbackFile(call.world.env) \in ReadPaths => call.world.env.exists
    /\ (ExitedUnsuccessfully /\ ~call.world.env.exists) => ret = StderrError
    /\ (call.world.out.launched /\ call.world.out.success) => ~ConsultedFallback

(* C8, amended: the HomeManager resolution attempts the build first; when
   the invocation cannot be launched the launch error is returned and the
   fallback is not consulted; the fallback is consulted only after the
   invocation ran and exited unsuccessfully; it is used only if the options
   file exists there; when the build exited unsuccessfully, HOME is set and
   the file does not exist, the result is an error carrying the build's
   stderr; when the build exited unsuccessfully and HOME is unset the call
   panics; after a successful build the fallback is never consulted. *)
C8_FallbackAfterFailedBuildWithHome ==
  HMUpdate =>
    /\ Len(call.steps) >= 1 /\ call.steps[1] = NixBuild
    /\ ~call.world.out.launched
         => (ret = Err(IoError("spawn", <<>>)) /\ call.steps = <<NixBuild>>)
    /\ ConsultedFallback => ExitedUnsuccessfully
    /\ ExitedUnsuccessfully => call.steps[2] = EnvHome
    /\ FallbackFile(call.world.env) \in ReadPaths
         => (call.world.env.exists /\ ExitedUnsuccessfully)
    /\ (ExitedUnsuccessfully /\ call.world.env.set /\ call.world.env.exists)
         => ReadPaths = {FallbackFile(call.world.env)}
    /\ (ExitedUnsuccessfully /\ call.world.env.set /\ ~call.world.env.exists)
         => (ret = StderrError /\ ReadPaths = {})
    /\ (ExitedUnsuccessfully /\ ~call.world.env.set)
         => (ret.kind = "panic" /\ ReadPaths = {})
    /\ (call.world.out.launched /\ call.world.out.success)
         => (~ConsultedFallback /\ ReadPaths # {})

\* the build exited unsuccessfully, HOME was set, the profile held no
\* options file, and the call returned the build's stderr
C8_Witness ==
  /\ HMUpdate /\ ExitedUnsuccessfully
  /\ call.world.env.set /\ ~call.world.env.exists
  /\ ret = StderrError
  /\ Len(options) = 1

(* C9: as long as no update() has succeeded, also after failed ones, the
   mapping is empty: all_keys() is empty and search(q) and search_liberal(q)
   are empty for every query q. *)
C9_EmptyUntilFirstSuccess ==
  ~succeeded =>
    /\ options = <<>>
    /\ all_keys(self) = <<>>
    /\ \A q \in Queries : search(self, q) = <<>> /\ search_liberal(self, q) = <<>>

\* an update() has failed on the database no update() has yet filled
C9_Witness ==
  /\ ~succeeded /\ UpdateReturned /\ ret.kind = "err"
  /\ call.world.file.kind = "unreadable"
  /\ all_keys(self) = <<>>

(* C10: after every successful update() the mapping is exactly the mapping
   parsed from the document fetched in that call, all_keys() yields exactly
   that document's keys, nothing of the previous mapping survives, and the
   variant is unchanged. *)
C10_ReplacedWholesale ==
  [][ (call'.op = "update" /\ ret'.kind = "ok")
        => ( /\ AsMap(options') = call'.world.file.doc
             /\ Len(options') = Cardinality(DOMAIN call'.world.file.doc)
             /\ Range(all_keys([typ |-> typ', options |-> options']))
                  = DOMAIN call'.world.file.doc
             /\ typ' = typ ) ]_vars

\* an update() has replaced a non-empty mapping by the empty document
C10_Witness ==
  /\ UpdateSucceeded /\ ret.value = FALSE
  /\ call.world.file.doc = <<>>
  /\ options = <<>>

====
